---- MODULE Spec2Model ----
(***************************************************************************)
(* PitcherScoutingApp.py: the Streamlit script (player lookup, overview    *)
(* tab, situational tab) and its helper functions get_fg_row,              *)
(* compute_pa_level_rates, compute_pitch_metrics, apply_filters and the    *)
(* pitch-mix pipeline.                                                     *)
(*                                                                         *)
(* A DataFrame is [columns, rows]: rows is a sequence of records.  A       *)
(* nullable number is NoneV, NaNV or Num(v); a null string cell is NullStr.*)
(* A percentage or an average rounded to one decimal is kept in tenths     *)
(* (33.3 is 333).                                                          *)
(***************************************************************************)
EXTENDS Integers, Sequences, FiniteSets, TLC

VARIABLES
  pc,            \* where the script (or the helper under test) stands
  data,          \* the pitch-event table the script holds
  fetched,       \* the table as load_statcast returned it (as passed, for a helper)
  fg,            \* the season-aggregate table
  pitcher_id, fg_id, player_name,
  fg_row, rates, pitch_metrics, mix,
  compare_mode, opts, situ_df, situ_mix,
  messages,      \* st.error / st.info / st.warning / st.success shown
  written,       \* the pitch counts st.write showed in the situational tab
  failed         \* the providers whose call raised in this run

uiVars == <<compare_mode, situ_mix, messages, written, failed>>
vars == <<pc, data, fetched, fg, pitcher_id, fg_id, player_name, fg_row,
          rates, pitch_metrics, mix, opts, situ_df, uiVars>>

(* ------------------------------ values -------------------------------- *)

NullStr == "<NA>"
NoneV == [kind |-> "None", val |-> 0]
NaNV == [kind |-> "NaN", val |-> 0]
Num(v) == [kind |-> "num", val |-> v]
notna(x) == x.kind = "num"

SeqsUpTo(S, n) == UNION {[1..k -> S] : k \in 0..n}

RECURSIVE SumSeq(_)
SumSeq(s) == IF s = <<>> THEN 0 ELSE Head(s) + SumSeq(Tail(s))

\* round(num / den, 1) in tenths, ties to even (den > 0)
Round1(num, den) ==
  LET q == (10 * num) \div den
      r == (10 * num) % den
  IN IF 2 * r < den THEN q
     ELSE IF 2 * r > den THEN q + 1
     ELSE IF q % 2 = 0 THEN q ELSE q + 1

DefaultRow ==
  [pitch_name |-> NullStr, pitch_type |-> NullStr, description |-> NullStr,
   events |-> NullStr, stand |-> "R", bat_side |-> "R", balls |-> 0,
   strikes |-> 0, outs_when_up |-> 0, on_1b |-> NoneV, on_2b |-> NoneV,
   on_3b |-> NoneV, launch_speed |-> NoneV, launch_angle |-> NoneV]

StatcastColumns == {"pitch_name", "pitch_type", "description", "events", "stand",
                    "balls", "strikes", "outs_when_up", "on_1b", "on_2b", "on_3b",
                    "launch_speed", "launch_angle"}

Frame(rows) == [columns |-> StatcastColumns, rows |-> rows]
NoFrame == [columns |-> {}, rows |-> <<>>]

NoRates == [k_pct |-> NoneV, bb_pct |-> NoneV, pa_count |-> 0]
NoMetrics == [total |-> 0, strike_pct |-> NoneV, whiff_pct |-> NoneV,
              avg_ev |-> NoneV, avg_la |-> NoneV]
NoOpts == [handedness |-> "All", count_option |-> <<"A", "l", "l">>,
           outs_option |-> [kind |-> "All", val |-> 0], base_state_option |-> "All"]
NoFg == [present |-> FALSE, rows |-> <<>>]

(* ----------------------- compute_pa_level_rates ----------------------- *)

\* the rates taken over every row instead of the rows with a terminal event
compute_pa_level_rates_all_rows(statcast_df) ==
  LET rows == statcast_df.rows
      pa_count == Len(SelectSeq(rows, LAMBDA r : r.events # NullStr))
      n == Len(rows)
      k == SumSeq([i \in 1..n |-> IF rows[i].events = "strikeout" THEN 1 ELSE 0])
      bb == SumSeq([i \in 1..n |-> IF rows[i].events = "walk" THEN 1 ELSE 0])
  IN IF pa_count = 0 THEN NoRates
     ELSE [k_pct |-> Num(Round1(100 * k, n)),
           bb_pct |-> Num(Round1(100 * bb, n)),
           pa_count |-> pa_count]

compute_pa_level_rates(statcast_df) ==
  LET rows == statcast_df.rows
      pa_df == SelectSeq(rows, LAMBDA r : r.events # NullStr)
      pa_count == Len(pa_df)
      k == SumSeq([i \in 1..pa_count |-> IF pa_df[i].events = "strikeout" THEN 1 ELSE 0])
      bb == SumSeq([i \in 1..pa_count |-> IF pa_df[i].events = "walk" THEN 1 ELSE 0])
  IN IF pa_count = 0 THEN NoRates
     ELSE [k_pct |-> Num(Round1(100 * k, pa_count)),
           bb_pct |-> Num(Round1(100 * bb, pa_count)),
           pa_count |-> pa_count]

(* ------------------------ compute_pitch_metrics ----------------------- *)

strike_descriptions == {"called_strike", "swinging_strike", "swinging_strike_blocked",
                        "foul", "foul_tip", "foul_bunt"}
swing_descriptions == {"swinging_strike", "swinging_strike_blocked", "foul",
                       "foul_tip", "hit_into_play"}
whiff_descriptions == {"swinging_strike", "swinging_strike_blocked"}

fillna(col, v) == [i \in DOMAIN col |-> IF col[i] = NullStr THEN v ELSE col[i]]

isin_sum(col, S) == SumSeq([i \in DOMAIN col |-> IF col[i] \in S THEN 1 ELSE 0])

\* Series.mean() then round(., 1): NaN cells are skipped; no number left is NaN
mean_round1(col) ==
  LET nums == SelectSeq(col, LAMBDA r : notna(r))
  IN IF nums = <<>> THEN NaNV
     ELSE Num(Round1(SumSeq([i \in DOMAIN nums |-> nums[i].val]), Len(nums)))

\* the whiff rate taken over all pitches instead of over swings
compute_pitch_metrics_whiff_per_pitch(statcast_df) ==
  LET rows == statcast_df.rows
      desc == fillna([i \in 1..Len(rows) |-> rows[i].description], "")
      total_pitches == Len(rows)
      strikes == isin_sum(desc, strike_descriptions)
      swings == isin_sum(desc, swing_descriptions)
      whiffs == isin_sum(desc, whiff_descriptions)
      batted == SelectSeq(rows, LAMBDA r : notna(r.launch_speed))
  IN [total |-> total_pitches,
      strike_pct |-> IF total_pitches # 0 THEN Num(Round1(100 * strikes, total_pitches))
                     ELSE NoneV,
      whiff_pct |-> IF swings # 0 THEN Num(Round1(100 * whiffs, total_pitches)) ELSE NoneV,
      avg_ev |-> IF batted # <<>>
                 THEN mean_round1([i \in DOMAIN batted |-> batted[i].launch_speed])
                 ELSE NoneV,
      avg_la |-> IF batted # <<>>
                 THEN mean_round1([i \in DOMAIN batted |-> batted[i].launch_angle])
                 ELSE NoneV]

compute_pitch_metrics(statcast_df) ==
  LET rows == statcast_df.rows
      desc == fillna([i \in 1..Len(rows) |-> rows[i].description], "")
      total_pitches == Len(rows)
      strikes == isin_sum(desc, strike_descriptions)
      swings == isin_sum(desc, swing_descriptions)
      whiffs == isin_sum(desc, whiff_descriptions)
      batted == SelectSeq(rows, LAMBDA r : notna(r.launch_speed))
  IN [total |-> total_pitches,
      strike_pct |-> IF total_pitches # 0 THEN Num(Round1(100 * strikes, total_pitches))
                     ELSE NoneV,
      whiff_pct |-> IF swings # 0 THEN Num(Round1(100 * whiffs, swings)) ELSE NoneV,
      avg_ev |-> IF batted # <<>>
                 THEN mean_round1([i \in DOMAIN batted |-> batted[i].launch_speed])
                 ELSE NoneV,
      avg_la |-> IF batted # <<>>
                 THEN mean_round1([i \in DOMAIN batted |-> batted[i].launch_angle])
                 ELSE NoneV]

(* ------------------------------ get_fg_row ----------------------------- *)

\* a string is a sequence of characters; a NaN Name cell is NullName
NullName == <<NullStr>>
Lower(c) == CASE c = "A" -> "a" [] c = "X" -> "x" [] OTHER -> c

\* one pattern character against one text character under re.IGNORECASE: "." is
\* the regular-expression wildcard, any other character of the model's alphabet
\* stands for itself
re_char(p, c) == p = "." \/ Lower(p) = Lower(c)

\* Series.str.contains(pat, case=False, na=False): regex defaults to True, so pat
\* is searched as a regular expression; a NaN cell gives na, that is False
str_contains(text, pat) ==
  /\ text # NullName
  /\ \E off \in 0..(Len(text) - Len(pat)) :
       \A k \in 1..Len(pat) : re_char(pat[k], text[off + k])

\* the returned row is named by its index label; player_name <<>> is None (or
\* the empty string): both are falsy at line 27
get_fg_row(fg_df, id, name) ==
  LET rows == fg_df.rows
      idx == [i \in 1..Len(rows) |-> i]
      m == SelectSeq(idx, LAMBDA i : rows[i].IDfg = id.val)
      m2 == SelectSeq(idx, LAMBDA i : str_contains(rows[i].Name, name))
  IN IF ~fg_df.present \/ rows = <<>> THEN NoneV
     ELSE IF id # NoneV /\ m # <<>> THEN Num(m[1])
     ELSE IF name # <<>> /\ m2 # <<>> THEN Num(m2[1])
     ELSE NoneV

(* ----------------------------- apply_filters --------------------------- *)

All == <<"A", "l", "l">>
OutsAll == [kind |-> "All", val |-> 0]

HandAliases == <<"stand", "bat_side", "batting_hand", "bat_hand", "batter_hand">>

\* the first alias that is a column, "" for None
handed_col_of(columns) ==
  LET hits == {i \in DOMAIN HandAliases : HandAliases[i] \in columns}
  IN IF hits = {} THEN ""
     ELSE HandAliases[CHOOSE i \in hits : \A k \in hits : i <= k]

\* the rows carry the two aliases the model's tables use
HandCell(r, col) == IF col = "stand" THEN r.stand ELSE r.bat_side

\* the outer check left out: "All" falls to the else of the conditional, "R"
filter_handedness_no_all_check(situ, handedness) ==
  LET handed_col == handed_col_of(situ.columns)
      want == IF handedness = "Left" THEN "L" ELSE "R"
  IN IF handed_col # ""
     THEN [situ EXCEPT !.rows =
            SelectSeq(situ.rows, LAMBDA r : HandCell(r, handed_col) = want)]
     ELSE situ

filter_handedness(situ, handedness) ==
  IF handedness # "All"
  THEN LET handed_col == handed_col_of(situ.columns)
           want == IF handedness = "Left" THEN "L" ELSE "R"
       IN IF handed_col # ""
          THEN [situ EXCEPT !.rows =
            SelectSeq(situ.rows, LAMBDA r : HandCell(r, handed_col) = want)]
          ELSE situ
  ELSE situ

\* str.split("-")
RECURSIVE split_dash(_)
split_dash(str) ==
  IF str = <<>> THEN <<(<<>>)>>
  ELSE LET rest == split_dash(Tail(str))
       IN IF Head(str) = "-" THEN <<(<<>>)>> \o rest
          ELSE <<(<<Head(str)>> \o rest[1])>> \o Tail(rest)

Digits == <<"0", "1", "2", "3">>
DigitVal(c) == (CHOOSE i \in DOMAIN Digits : Digits[i] = c) - 1
IsDigit(c) == \E i \in DOMAIN Digits : Digits[i] = c

\* int(str) succeeds on a non-empty run of digits (the model's alphabet has no
\* sign, blank or underscore); anything else raises ValueError
int_ok(str) == str # <<>> /\ \A i \in 1..Len(str) : IsDigit(str[i])
RECURSIVE int_of(_)
int_of(str) ==
  IF str = <<>> THEN 0
  ELSE 10 * int_of(SubSeq(str, 1, Len(str) - 1)) + DigitVal(str[Len(str)])

\* the balls filter applied before strikes is parsed
filter_count_partial(situ, count_option) ==
  IF count_option # All
  THEN LET parts == split_dash(count_option)
       IN IF Len(parts) = 2 /\ int_ok(parts[1])
          THEN IF int_ok(parts[2])
               THEN [situ EXCEPT !.rows = SelectSeq(situ.rows, LAMBDA r :
                    r.balls = int_of(parts[1]) /\ r.strikes = int_of(parts[2]))]
               ELSE [situ EXCEPT !.rows = SelectSeq(situ.rows, LAMBDA r : r.balls = int_of(parts[1]))]
          ELSE situ
  ELSE situ

\* lines 204-208: the unpacking of other than two parts and int() of a part that
\* is no integer raise inside the try, and the bare except passes
filter_count(situ, count_option) ==
  IF count_option # All
  THEN LET parts == split_dash(count_option)
       IN IF Len(parts) = 2 /\ int_ok(parts[1]) /\ int_ok(parts[2])
          THEN [situ EXCEPT !.rows = SelectSeq(situ.rows, LAMBDA r :
                    r.balls = int_of(parts[1]) /\ r.strikes = int_of(parts[2]))]
          ELSE situ
  ELSE situ

\* outs at most the chosen number
filter_outs_at_most(situ, outs_option) ==
  IF outs_option # OutsAll
  THEN [situ EXCEPT !.rows = SelectSeq(situ.rows, LAMBDA r : r.outs_when_up <= outs_option.val)]
  ELSE situ

filter_outs(situ, outs_option) ==
  IF outs_option # OutsAll
  THEN [situ EXCEPT !.rows = SelectSeq(situ.rows, LAMBDA r : r.outs_when_up = outs_option.val)]
  ELSE situ

isna(x) == x.kind # "num"

\* "First & Third" without the test that second base is empty
base_state_mask_first_third_loose(r, base_state_option) ==
  CASE base_state_option = "Empty" -> isna(r.on_1b) /\ isna(r.on_2b) /\ isna(r.on_3b)
    [] base_state_option = "Runners On" -> notna(r.on_1b) \/ notna(r.on_2b) \/ notna(r.on_3b)
    [] base_state_option = "RISP" -> notna(r.on_2b) \/ notna(r.on_3b)
    [] base_state_option = "First occupied" -> notna(r.on_1b)
    [] base_state_option = "First Only" -> notna(r.on_1b) /\ isna(r.on_2b) /\ isna(r.on_3b)
    [] base_state_option = "First & Second" -> notna(r.on_1b) /\ notna(r.on_2b) /\ isna(r.on_3b)
    [] base_state_option = "First & Third" -> notna(r.on_1b) /\ notna(r.on_3b)
    [] base_state_option = "Second Only" -> isna(r.on_1b) /\ notna(r.on_2b) /\ isna(r.on_3b)
    [] base_state_option = "Second occupied" -> notna(r.on_2b)
    [] base_state_option = "Second & Third" -> isna(r.on_1b) /\ notna(r.on_2b) /\ notna(r.on_3b)
    [] base_state_option = "Third Only" -> isna(r.on_1b) /\ isna(r.on_2b) /\ notna(r.on_3b)
    [] base_state_option = "Third occupied" -> notna(r.on_3b)
    [] base_state_option = "Bases Loaded" -> notna(r.on_1b) /\ notna(r.on_2b) /\ notna(r.on_3b)
    [] OTHER -> TRUE

\* lines 212-237, one row's mask
base_state_mask(r, base_state_option) ==
  CASE base_state_option = "Empty" -> isna(r.on_1b) /\ isna(r.on_2b) /\ isna(r.on_3b)
    [] base_state_option = "Runners On" -> notna(r.on_1b) \/ notna(r.on_2b) \/ notna(r.on_3b)
    [] base_state_option = "RISP" -> notna(r.on_2b) \/ notna(r.on_3b)
    [] base_state_option = "First occupied" -> notna(r.on_1b)
    [] base_state_option = "First Only" -> notna(r.on_1b) /\ isna(r.on_2b) /\ isna(r.on_3b)
    [] base_state_option = "First & Second" -> notna(r.on_1b) /\ notna(r.on_2b) /\ isna(r.on_3b)
    [] base_state_option = "First & Third" -> notna(r.on_1b) /\ isna(r.on_2b) /\ notna(r.on_3b)
    [] base_state_option = "Second Only" -> isna(r.on_1b) /\ notna(r.on_2b) /\ isna(r.on_3b)
    [] base_state_option = "Second occupied" -> notna(r.on_2b)
    [] base_state_option = "Second & Third" -> isna(r.on_1b) /\ notna(r.on_2b) /\ notna(r.on_3b)
    [] base_state_option = "Third Only" -> isna(r.on_1b) /\ isna(r.on_2b) /\ notna(r.on_3b)
    [] base_state_option = "Third occupied" -> notna(r.on_3b)
    [] base_state_option = "Bases Loaded" -> notna(r.on_1b) /\ notna(r.on_2b) /\ notna(r.on_3b)
    [] OTHER -> TRUE

filter_base_state(situ, base_state_option) ==
  [situ EXCEPT !.rows =
     SelectSeq(situ.rows, LAMBDA r : base_state_mask(r, base_state_option))]

\* the four filters of apply_filters, in the order the code applies them
FilterStep(k, situ, o) ==
  CASE k = 1 -> filter_handedness(situ, o.handedness)
    [] k = 2 -> filter_count(situ, o.count_option)
    [] k = 3 -> filter_outs(situ, o.outs_option)
    [] k = 4 -> filter_base_state(situ, o.base_state_option)

RECURSIVE FilterSteps(_, _, _)
FilterSteps(order, situ, o) ==
  IF order = <<>> THEN situ
  ELSE FilterSteps(Tail(order), FilterStep(Head(order), situ, o), o)

\* no copy: the filters narrow the caller's table itself
apply_filters_in_place(df, o) ==
  LET situ == FilterSteps(<<1, 2, 3, 4>>, df, o)
  IN [df |-> situ, situ_df |-> situ]

\* df is the caller's table after the call, situ_df the returned one: line 194
\* copies, and each filter rebinds situ_df to a new frame
apply_filters(df, o) ==
  LET copy == df
  IN [df |-> df, situ_df |-> FilterSteps(<<1, 2, 3, 4>>, copy, o)]

(* ------------------------------ pitch mix ------------------------------ *)

\* str < str on the labels the model uses (code-point order)
LabelOrder == <<"4-Seam Fastball", "CH", "Changeup", "FF", "SL", "Slider">>
LabelRank(l) == CHOOSE i \in DOMAIN LabelOrder : LabelOrder[i] = l

label_col_of(df) == IF "pitch_name" \in df.columns THEN "pitch_name" ELSE "pitch_type"
Label(r, label_col) == IF label_col = "pitch_name" THEN r.pitch_name ELSE r.pitch_type

\* df.dropna(subset=[label_col])
dropna_label(rows, label_col) ==
  SelectSeq(rows, LAMBDA r : Label(r, label_col) # NullStr)

\* .groupby(label_col).size().reset_index(name="count"): one row per label, the
\* labels in sorted order (groupby sorts its keys)
groupby_size(rows, label_col) ==
  LET present == {i \in DOMAIN LabelOrder :
                    \E k \in 1..Len(rows) : Label(rows[k], label_col) = LabelOrder[i]}
      keys == SelectSeq(LabelOrder, LAMBDA l : LabelRank(l) \in present)
  IN [j \in 1..Len(keys) |->
        [label |-> keys[j],
         count |-> Cardinality({k \in 1..Len(rows) : Label(rows[k], label_col) = keys[j]})]]

Perms(g) ==
  {s \in [1..Len(g) -> {g[i] : i \in 1..Len(g)}] :
     \A i, j \in 1..Len(g) : i # j => s[i] # s[j]}

\* the sort left out: ascending order
sort_values_ascending(g) ==
  {s \in Perms(g) : \A i \in 1..(Len(g) - 1) : s[i].count <= s[i + 1].count}

\* .sort_values("count", ascending=False) with the default kind="quicksort", which
\* is not stable: every order of the groups that is descending by count
sort_values_count_desc(g) ==
  {s \in Perms(g) : \A i \in 1..(Len(g) - 1) : s[i].count >= s[i + 1].count}

\* mix["usage %"] = mix["count"] / mix["count"].sum() * 100, kept as a fraction
with_usage(m) ==
  LET total == SumSeq([i \in 1..Len(m) |-> m[i].count])
  IN [i \in 1..Len(m) |->
        [label |-> m[i].label, count |-> m[i].count,
         usage_pct |-> <<100 * m[i].count, total>>]]

\* the outcomes of the pitch-mix pipeline on a table
pitch_mix(df) ==
  LET label_col == label_col_of(df)
  IN {with_usage(s) :
        s \in sort_values_count_desc(groupby_size(dropna_label(df.rows, label_col), label_col))}

(* ------------------- bounds and inputs of the helpers ------------------ *)

MaxPARows == 3
MaxPMRows == 2
MaxMixRows == 3
MaxFgRows == 2
MaxFilterRows == 2
MaxRunRows == 1

PAEvents == {NullStr, "strikeout", "walk", "single"}
PARows == {[DefaultRow EXCEPT !.events = e] : e \in PAEvents}

PMDescriptions == {NullStr, "ball", "called_strike", "swinging_strike",
                   "swinging_strike_blocked", "foul", "foul_tip", "foul_bunt",
                   "hit_into_play"}
PMLaunch == {<<Num(90), Num(10)>>, <<Num(95), NoneV>>, <<NoneV, Num(25)>>}
PMRows ==
  {[DefaultRow EXCEPT !.description = d] : d \in PMDescriptions}
  \cup {[DefaultRow EXCEPT !.description = d, !.launch_speed = l[1], !.launch_angle = l[2]] :
          d \in {"hit_into_play", "foul"}, l \in PMLaunch}

MixLabels == {<<NullStr, NullStr>>, <<NullStr, "FF">>, <<"4-Seam Fastball", "FF">>,
              <<"Slider", "SL">>, <<"Changeup", "CH">>}
MixRows == {[DefaultRow EXCEPT !.pitch_name = l[1], !.pitch_type = l[2]] : l \in MixLabels}

FgNames == {<<"A", "x">>, <<"x", "a">>, <<"a", ".">>, NullName}
FgRows == {[IDfg |-> i, Name |-> n] : i \in {1, 2}, n \in FgNames}
FgIds == {NoneV, Num(1), Num(2)}
PlayerNames == {<<>>, <<"a">>, <<"X">>, <<"a", "x">>, <<"a", ".">>}

\* the eight occupancies of the bases, each with one of two opposite profiles of
\* batter side, count and outs
Runner(b) == IF b = 1 THEN Num(7) ELSE NaNV
Occupancies == {<<a, b, c>> : a \in {0, 1}, b \in {0, 1}, c \in {0, 1}}
FilterRow(t) ==
  LET even == (t[1] + t[2] + t[3]) % 2 = 0
  IN [DefaultRow EXCEPT !.on_1b = Runner(t[1]), !.on_2b = Runner(t[2]),
                        !.on_3b = Runner(t[3]),
                        !.stand = IF even THEN "L" ELSE "R",
                        !.bat_side = IF even THEN "R" ELSE "L",
                        !.balls = IF even THEN 0 ELSE 1,
                        !.strikes = IF even THEN 2 ELSE 1,
                        !.outs_when_up = IF even THEN 0 ELSE 1]
FilterRows == {FilterRow(t) : t \in Occupancies}
\* every one-row table, and the longer tables over two rows of opposite profiles
FilterMultiRows == {FilterRow(<<1, 0, 0>>), FilterRow(<<1, 0, 1>>)}
HandColumnSets == {{"stand", "bat_side"}, {"bat_side"}, {}}
FilterFrames ==
  {[columns |-> (StatcastColumns \ {"stand"}) \cup h, rows |-> r] :
     h \in HandColumnSets,
     r \in SeqsUpTo(FilterRows, 1) \cup SeqsUpTo(FilterMultiRows, MaxFilterRows)}

HandOptions == {"All", "Left", "Right"}
CountStrings == {All, <<"0", "-", "2">>, <<"1", "-", "1">>, <<"0", "-", "x">>,
                 <<"0", "-", "2", "-", "1">>, <<"0", "2">>, <<"-", "2">>}
OutsOptions == {OutsAll, Num(0), Num(1)}
BaseStateOptions == {"All", "Empty", "RISP", "Runners On", "First occupied",
                     "First Only", "First & Second", "First & Third",
                     "Second occupied", "Second Only", "Second & Third",
                     "Third occupied", "Third Only", "Bases Loaded"}
FilterOptions ==
  [handedness : HandOptions, count_option : CountStrings,
   outs_option : OutsOptions, base_state_option : BaseStateOptions]

\* what the providers return in a run of the script
LookupRows == {[key_mlbam |-> m, key_fangraphs |-> f, name |-> <<"a", "x">>] :
                 m \in {NaNV, Num(1)}, f \in {NaNV, Num(1)}}
RunRows ==
  {[FilterRow(<<0, 0, 0>>) EXCEPT !.pitch_name = "Slider", !.pitch_type = "SL",
                                  !.description = "swinging_strike",
                                  !.events = "strikeout"],
   [FilterRow(<<1, 0, 0>>) EXCEPT !.pitch_name = "Changeup", !.pitch_type = "CH",
                                  !.description = "hit_into_play", !.events = "single",
                                  !.launch_speed = Num(90), !.launch_angle = Num(10)]}
RunFrames == {Frame(r) : r \in SeqsUpTo(RunRows, MaxRunRows)}
RunFgTables == {[present |-> TRUE, rows |-> <<>>],
                [present |-> TRUE, rows |-> <<[IDfg |-> 1, Name |-> <<"A", "x">>]>>]}

\* the options of the select boxes, lines 241-247 (and 278-284, 303-309)
UICounts == {All, <<"0", "-", "0">>, <<"0", "-", "1">>, <<"1", "-", "0">>,
             <<"1", "-", "1">>, <<"0", "-", "2">>, <<"1", "-", "2">>,
             <<"2", "-", "2">>, <<"3", "-", "2">>, <<"3", "-", "0">>}
UIOuts == {OutsAll, Num(0), Num(1), Num(2)}
UIOptions ==
  [handedness : HandOptions, count_option : UICounts,
   outs_option : UIOuts, base_state_option : BaseStateOptions]

\* a helper called on its own: only its argument table is set
HelperInit(frame) ==
  /\ data = frame /\ fetched = frame
  /\ pc = "input" /\ fg = NoFg
  /\ pitcher_id = NoneV /\ fg_id = NoneV /\ player_name = <<>> /\ fg_row = NoneV
  /\ rates = NoRates /\ pitch_metrics = NoMetrics /\ mix = <<>>
  /\ opts = NoOpts /\ situ_df = NoFrame
  /\ compare_mode = FALSE /\ situ_mix = <<>> /\ messages = {} /\ written = <<>>
  /\ failed = {}

(* ------------- compute_pa_level_rates on bounded tables --------------- *)

InitPA == \E rows \in SeqsUpTo(PARows, MaxPARows) : HelperInit(Frame(rows))

CallPARates ==
  /\ pc = "input"
  /\ rates' = compute_pa_level_rates(data)
  /\ pc' = "returned"
  /\ UNCHANGED <<data, fetched, fg, pitcher_id, fg_id, player_name, fg_row,
                 pitch_metrics, mix, opts, situ_df, uiVars>>

NextPA == CallPARates
SpecPA == InitPA /\ [][NextPA]_vars

(* -------------- compute_pitch_metrics on bounded tables --------------- *)

InitPM == \E rows \in SeqsUpTo(PMRows, MaxPMRows) : HelperInit(Frame(rows))

CallPitchMetrics ==
  /\ pc = "input"
  /\ pitch_metrics' = compute_pitch_metrics(data)
  /\ pc' = "returned"
  /\ UNCHANGED <<data, fetched, fg, pitcher_id, fg_id, player_name, fg_row,
                 rates, mix, opts, situ_df, uiVars>>

NextPM == CallPitchMetrics
SpecPM == InitPM /\ [][NextPM]_vars

(* ------------------------- one run of the script ---------------------- *)

Init ==
  /\ pc = "sidebar" /\ data = NoFrame /\ fetched = NoFrame /\ fg = NoFg
  /\ pitcher_id = NoneV /\ fg_id = NoneV /\ player_name = <<>> /\ fg_row = NoneV
  /\ rates = NoRates /\ pitch_metrics = NoMetrics /\ mix = <<>>
  /\ opts = NoOpts /\ situ_df = NoFrame
  /\ compare_mode = FALSE /\ situ_mix = <<>> /\ messages = {} /\ written = <<>>
  /\ failed = {}

\* lines 86-98
Lookup ==
  /\ pc = "sidebar"
  /\ \/ \* first or last is empty
        UNCHANGED <<pitcher_id, fg_id, player_name, messages, failed>>
     \/ \* playerid_lookup raises
        /\ messages' = messages \cup {"Lookup failed"}
        /\ failed' = failed \cup {"playerid_lookup"}
        /\ UNCHANGED <<pitcher_id, fg_id, player_name>>
     \/ \* the lookup is empty
        /\ messages' = messages \cup {"No player found with that name."}
        /\ UNCHANGED <<pitcher_id, fg_id, player_name, failed>>
     \/ \E row0 \in LookupRows :
          /\ pitcher_id' = IF notna(row0.key_mlbam) THEN row0.key_mlbam ELSE NoneV
          /\ fg_id' = IF notna(row0.key_fangraphs) THEN row0.key_fangraphs ELSE NoneV
          /\ player_name' = row0.name
          /\ messages' = messages \cup {"Found"}
          /\ UNCHANGED failed
  /\ pc' = "tab1"
  /\ UNCHANGED <<data, fetched, fg, fg_row, rates, pitch_metrics, mix, opts, situ_df,
                 compare_mode, situ_mix, written>>

\* lines 106-107
Tab1NoPitcher ==
  /\ pc = "tab1" /\ pitcher_id = NoneV
  /\ messages' = messages \cup {"Enter a player's first and last name in the sidebar to begin."}
  /\ pc' = "tab2"
  /\ UNCHANGED <<data, fetched, fg, pitcher_id, fg_id, player_name, fg_row, rates,
                 pitch_metrics, mix, opts, situ_df, compare_mode, situ_mix, written,
                 failed>>

\* line 110: no handler encloses the call, an exception leaves the script
LoadStatcast ==
  /\ pc = "tab1" /\ pitcher_id # NoneV
  /\ \/ /\ failed' = failed \cup {"statcast_pitcher"}
        /\ pc' = "uncaught"
        /\ UNCHANGED <<data, fetched>>
     \/ \E f \in RunFrames :
          /\ data' = f /\ fetched' = f
          /\ pc' = "tab1_fg"
          /\ UNCHANGED failed
  /\ UNCHANGED <<fg, pitcher_id, fg_id, player_name, fg_row, rates, pitch_metrics,
                 mix, opts, situ_df, compare_mode, situ_mix, messages, written>>

\* line 111: as line 110
LoadFgPitching ==
  /\ pc = "tab1_fg"
  /\ \/ /\ failed' = failed \cup {"pitching_stats"}
        /\ pc' = "uncaught"
        /\ UNCHANGED fg
     \/ \E t \in RunFgTables :
          /\ fg' = t
          /\ pc' = "tab1_render"
          /\ UNCHANGED failed
  /\ UNCHANGED <<data, fetched, pitcher_id, fg_id, player_name, fg_row, rates,
                 pitch_metrics, mix, opts, situ_df, compare_mode, situ_mix, messages,
                 written>>

\* lines 113-178; the stats grid and the pie chart are rendered, not kept
Tab1Render ==
  /\ pc = "tab1_render"
  /\ fg_row' = IF fg.present THEN get_fg_row(fg, fg_id, player_name) ELSE NoneV
  /\ IF data.rows = <<>>
     THEN /\ messages' = messages \cup {"No Statcast data found"}
          /\ UNCHANGED <<rates, pitch_metrics, mix>>
     ELSE /\ rates' = compute_pa_level_rates(data)
          /\ pitch_metrics' = compute_pitch_metrics(data)
          /\ \E m \in pitch_mix(data) :
               /\ mix' = m
               /\ messages' = IF m = <<>>
                               THEN messages \cup {"No pitch mix data available."}
                               ELSE messages
  /\ pc' = "tab2"
  /\ UNCHANGED <<data, fetched, fg, pitcher_id, fg_id, player_name, opts, situ_df,
                 compare_mode, situ_mix, written, failed>>

\* lines 185-186
Tab2NoPitcher ==
  /\ pc = "tab2" /\ pitcher_id = NoneV
  /\ messages' = messages \cup {"Enter a player's first and last name in the sidebar to begin."}
  /\ pc' = "done"
  /\ UNCHANGED <<data, fetched, fg, pitcher_id, fg_id, player_name, fg_row, rates,
                 pitch_metrics, mix, opts, situ_df, compare_mode, situ_mix, written,
                 failed>>

\* lines 188-189
Tab2NoData ==
  /\ pc = "tab2" /\ pitcher_id # NoneV /\ data.rows = <<>>
  /\ messages' = messages \cup {"Load pitcher data in the Pitcher Overview tab first."}
  /\ pc' = "done"
  /\ UNCHANGED <<data, fetched, fg, pitcher_id, fg_id, player_name, fg_row, rates,
                 pitch_metrics, mix, opts, situ_df, compare_mode, situ_mix, written,
                 failed>>

\* lines 240-273
Tab2Single ==
  /\ pc = "tab2" /\ pitcher_id # NoneV /\ data.rows # <<>>
  /\ compare_mode' = FALSE
  /\ \E o \in UIOptions :
       LET r == apply_filters(data, o)
       IN /\ opts' = o /\ data' = r.df /\ situ_df' = r.situ_df
          /\ written' = <<Len(r.situ_df.rows)>>
          /\ IF r.situ_df.rows = <<>>
             THEN /\ messages' = messages \cup {"No pitches found for this situation."}
                  /\ UNCHANGED situ_mix
             ELSE \E m \in pitch_mix(r.situ_df) :
                    /\ situ_mix' = m
                    /\ messages' =
                         IF m = <<>>
                         THEN messages \cup
                                {"No pitch-type data available for this filtered situation."}
                         ELSE messages
  /\ pc' = "done"
  /\ UNCHANGED <<fetched, fg, pitcher_id, fg_id, player_name, fg_row, rates,
                 pitch_metrics, mix, failed>>

\* lines 276-299; situ_a and mix_a are rendered and not read again: the count
\* written and the table the next call is given are what stays
Tab2CompareA ==
  /\ pc = "tab2" /\ pitcher_id # NoneV /\ data.rows # <<>>
  /\ compare_mode' = TRUE
  /\ \E o \in UIOptions :
       LET r == apply_filters(data, o)
       IN /\ data' = r.df
          /\ written' = <<Len(r.situ_df.rows)>>
  /\ pc' = "tab2_b"
  /\ UNCHANGED <<fetched, fg, pitcher_id, fg_id, player_name, fg_row, rates,
                 pitch_metrics, mix, opts, situ_df, situ_mix, messages, failed>>

\* lines 301-324
Tab2CompareB ==
  /\ pc = "tab2_b"
  /\ \E o \in UIOptions :
       LET r == apply_filters(data, o)
       IN /\ opts' = o /\ data' = r.df /\ situ_df' = r.situ_df
          /\ written' = Append(written, Len(r.situ_df.rows))
          /\ IF r.situ_df.rows = <<>>
             THEN UNCHANGED situ_mix
             ELSE \E m \in pitch_mix(r.situ_df) : situ_mix' = m
  /\ pc' = "done"
  /\ UNCHANGED <<fetched, fg, pitcher_id, fg_id, player_name, fg_row, rates,
                 pitch_metrics, mix, compare_mode, messages, failed>>

\* a widget changes, or the page is reloaded: the script runs again from its first
\* line
Rerun ==
  /\ pc \in {"done", "uncaught"}
  /\ pc' = "sidebar" /\ data' = NoFrame /\ fetched' = NoFrame /\ fg' = NoFg
  /\ pitcher_id' = NoneV /\ fg_id' = NoneV /\ player_name' = <<>> /\ fg_row' = NoneV
  /\ rates' = NoRates /\ pitch_metrics' = NoMetrics /\ mix' = <<>>
  /\ opts' = NoOpts /\ situ_df' = NoFrame
  /\ compare_mode' = FALSE /\ situ_mix' = <<>> /\ messages' = {} /\ written' = <<>>
  /\ failed' = {}

Next ==
  \/ Lookup \/ Tab1NoPitcher \/ LoadStatcast \/ LoadFgPitching \/ Tab1Render
  \/ Tab2NoPitcher \/ Tab2NoData \/ Tab2Single \/ Tab2CompareA \/ Tab2CompareB
  \/ Rerun

Spec == Init /\ [][Next]_vars

(* ---------------------- apply_filters on bounded tables ---------------- *)

InitFilter == \E f \in FilterFrames : HelperInit(f)

CallApplyFilters ==
  /\ pc = "input"
  /\ \E o \in FilterOptions :
       LET r == apply_filters(data, o)
       IN /\ opts' = o
          /\ data' = r.df
          /\ situ_df' = r.situ_df
  /\ pc' = "returned"
  /\ UNCHANGED <<fetched, fg, pitcher_id, fg_id, player_name, fg_row,
                 rates, pitch_metrics, mix, uiVars>>

NextFilter == CallApplyFilters
SpecFilter == InitFilter /\ [][NextFilter]_vars

(* ----------------------- get_fg_row on bounded tables ------------------ *)

InitFG ==
  \E f \in {NoFg} \cup {[present |-> TRUE, rows |-> r] : r \in SeqsUpTo(FgRows, MaxFgRows)},
     id \in FgIds, name \in PlayerNames :
    /\ fg = f /\ fg_id = id /\ player_name = name
    /\ pc = "input" /\ data = NoFrame /\ fetched = NoFrame
    /\ pitcher_id = NoneV /\ fg_row = NoneV
    /\ rates = NoRates /\ pitch_metrics = NoMetrics /\ mix = <<>>
    /\ opts = NoOpts /\ situ_df = NoFrame
  /\ compare_mode = FALSE /\ situ_mix = <<>> /\ messages = {} /\ written = <<>>
  /\ failed = {}

CallGetFgRow ==
  /\ pc = "input"
  /\ fg_row' = get_fg_row(fg, fg_id, player_name)
  /\ pc' = "returned"
  /\ UNCHANGED <<data, fetched, fg, pitcher_id, fg_id, player_name,
                 rates, pitch_metrics, mix, opts, situ_df, uiVars>>

NextFG == CallGetFgRow
SpecFG == InitFG /\ [][NextFG]_vars

(* ------------------------------ C9 ------------------------------------ *)

\* name contains the display name, compared character by character without case
C9_Contains(text, pat) ==
  /\ text # NullName
  /\ \E off \in 0..(Len(text) - Len(pat)) :
       \A k \in 1..Len(pat) : Lower(pat[k]) = Lower(text[off + k])
C9_IdMatches ==
  IF fg_id = NoneV THEN {}
  ELSE {i \in 1..Len(fg.rows) : fg.rows[i].IDfg = fg_id.val}
C9_NameMatches ==
  IF player_name = <<>> THEN {}
  ELSE {i \in 1..Len(fg.rows) : C9_Contains(fg.rows[i].Name, player_name)}
C9_First(S) == CHOOSE i \in S : \A k \in S : i <= k

\* C9: get_fg_row returns the first row whose id equals the given id when there
\* is one; otherwise the first row whose name contains the display name without
\* regard to case; null when neither matches or the table is empty or absent.
C9_IdThenSubstring ==
  pc = "returned" =>
    fg_row = IF ~fg.present \/ fg.rows = <<>> THEN NoneV
             ELSE IF C9_IdMatches # {} THEN Num(C9_First(C9_IdMatches))
             ELSE IF C9_NameMatches # {} THEN Num(C9_First(C9_NameMatches))
             ELSE NoneV

(* ------------------- the pitch mix on bounded tables ------------------- *)

InitMix ==
  \E rows \in SeqsUpTo(MixRows, MaxMixRows), named \in BOOLEAN :
    HelperInit([columns |-> IF named THEN StatcastColumns
                            ELSE StatcastColumns \ {"pitch_name"},
                rows |-> rows])

CallPitchMix ==
  /\ pc = "input"
  /\ \E m \in pitch_mix(data) : mix' = m
  /\ pc' = "returned"
  /\ UNCHANGED <<data, fetched, fg, pitcher_id, fg_id, player_name, fg_row,
                 rates, pitch_metrics, opts, situ_df, uiVars>>

NextMix == CallPitchMix
SpecMix == InitMix /\ [][NextMix]_vars

(* ------------------------------ C1 ------------------------------------ *)

\* C1: whichever of the three provider calls raises, the run goes on to show a
\* message and the exception does not leave the script.
C1_FailuresCaught ==
  failed # {} => /\ pc # "uncaught"
                 /\ \E m \in messages : m \in {"Lookup failed", "Fetch failed"}

(* ------------------------------ C2 ------------------------------------ *)

C2_LabelOf(r) == IF "pitch_name" \in data.columns THEN r.pitch_name ELSE r.pitch_type
C2_RowsOf(l) == {i \in 1..Len(data.rows) : C2_LabelOf(data.rows[i]) = l}
C2_FirstSeen(l) == CHOOSE i \in C2_RowsOf(l) : \A k \in C2_RowsOf(l) : i <= k
C2_Descending == \A i \in 1..(Len(mix) - 1) : mix[i].count >= mix[i + 1].count

\* C2 as stated: the pitch-mix table is sorted descending by count, and labels
\* with equal counts appear in the order in which each first occurs in the input
\* rows.
C2_FirstSeenTies ==
  pc = "returned" =>
    /\ C2_Descending
    /\ \A i, j \in 1..Len(mix) :
         (i < j /\ mix[i].count = mix[j].count)
           => C2_FirstSeen(mix[i].label) < C2_FirstSeen(mix[j].label)

\* C2 as amended: the pitch-mix table holds each non-null label of the input once,
\* with the number of rows that carry it, sorted descending by count; the order of
\* labels with equal counts is not fixed.
C2_SortedByCount ==
  pc = "returned" =>
    /\ C2_Descending
    /\ \A i, j \in 1..Len(mix) : i # j => mix[i].label # mix[j].label
    /\ \A i \in 1..Len(mix) :
         /\ mix[i].label # NullStr
         /\ mix[i].count = Cardinality(C2_RowsOf(mix[i].label))
         /\ mix[i].count > 0
    /\ \A k \in 1..Len(data.rows) :
         C2_LabelOf(data.rows[k]) # NullStr
           => \E i \in 1..Len(mix) : mix[i].label = C2_LabelOf(data.rows[k])

\* Slider first, then Changeup twice: Changeup leads with 2, Slider follows with 1
C2_Witness ==
  /\ pc = "returned"
  /\ "pitch_name" \in data.columns
  /\ Len(data.rows) = 3
  /\ data.rows[1].pitch_name = "Slider"
  /\ data.rows[2].pitch_name = "Changeup"
  /\ data.rows[3].pitch_name = "Changeup"
  /\ Len(mix) = 2
  /\ mix[1].label = "Changeup" /\ mix[1].count = 2
  /\ mix[2].label = "Slider" /\ mix[2].count = 1

(* ------------------------------ C3 ------------------------------------ *)

C3_Present(x) == IF x = NoneV \/ x = NaNV THEN 0 ELSE 1
C3_Triple(r) == <<C3_Present(r.on_1b), C3_Present(r.on_2b), C3_Present(r.on_3b)>>

\* the table of the specification: the occupancies (1B, 2B, 3B) each state keeps
C3_Allowed(state) ==
  CASE state = "Empty" -> {<<0, 0, 0>>}
    [] state = "Runners On" -> {<<1, 0, 0>>, <<0, 1, 0>>, <<0, 0, 1>>, <<1, 1, 0>>,
                                <<1, 0, 1>>, <<0, 1, 1>>, <<1, 1, 1>>}
    [] state = "RISP" -> {<<0, 1, 0>>, <<0, 0, 1>>, <<1, 1, 0>>, <<1, 0, 1>>,
                          <<0, 1, 1>>, <<1, 1, 1>>}
    [] state = "First occupied" -> {<<1, 0, 0>>, <<1, 1, 0>>, <<1, 0, 1>>, <<1, 1, 1>>}
    [] state = "First Only" -> {<<1, 0, 0>>}
    [] state = "First & Second" -> {<<1, 1, 0>>}
    [] state = "First & Third" -> {<<1, 0, 1>>}
    [] state = "Second occupied" -> {<<0, 1, 0>>, <<1, 1, 0>>, <<0, 1, 1>>, <<1, 1, 1>>}
    [] state = "Second Only" -> {<<0, 1, 0>>}
    [] state = "Second & Third" -> {<<0, 1, 1>>}
    [] state = "Third occupied" -> {<<0, 0, 1>>, <<1, 0, 1>>, <<0, 1, 1>>, <<1, 1, 1>>}
    [] state = "Third Only" -> {<<0, 0, 1>>}
    [] state = "Bases Loaded" -> {<<1, 1, 1>>}
    [] OTHER -> Occupancies
C3_Named == {"Empty", "Runners On", "RISP", "First occupied", "First Only",
             "First & Second", "First & Third", "Second occupied", "Second Only",
             "Second & Third", "Third occupied", "Third Only", "Bases Loaded"}
C3_InState(r) == C3_Triple(r) \in C3_Allowed(opts.base_state_option)

\* C3: for each of the 13 named base states apply_filters keeps, of the rows the
\* other three filters keep, exactly those whose on_1b/on_2b/on_3b occupancy is in
\* the specification's table for that state.
C3_BaseStateTable ==
  (pc = "returned" /\ opts.base_state_option \in C3_Named) =>
    situ_df.rows =
      SelectSeq(apply_filters(fetched, [opts EXCEPT !.base_state_option = "All"]).situ_df.rows,
                C3_InState)

\* "First & Third" on a table with a first-only and a first-and-third row keeps
\* the second only
C3_Witness ==
  /\ pc = "returned"
  /\ opts = [NoOpts EXCEPT !.base_state_option = "First & Third"]
  /\ fetched.rows = <<FilterRow(<<1, 0, 0>>), FilterRow(<<1, 0, 1>>)>>
  /\ situ_df.rows = <<FilterRow(<<1, 0, 1>>)>>

(* ------------------------------ C4 ------------------------------------ *)

C4_HandCell(r) == IF "stand" \in fetched.columns THEN r.stand ELSE r.bat_side
C4_HasHandColumn == \E c \in {"stand", "bat_side", "batting_hand", "bat_hand", "batter_hand"} :
                      c \in fetched.columns
C4_Hand(r) ==
  \/ opts.handedness = "All"
  \/ ~C4_HasHandColumn
  \/ opts.handedness = "Left" /\ C4_HandCell(r) = "L"
  \/ opts.handedness = "Right" /\ C4_HandCell(r) = "R"
\* the count strings of the model that are two integers around one "-", with
\* the balls and strikes they name
C4_Counts == {<<(<<"0", "-", "0">>), 0, 0>>, <<(<<"0", "-", "1">>), 0, 1>>,
              <<(<<"1", "-", "0">>), 1, 0>>, <<(<<"1", "-", "1">>), 1, 1>>,
              <<(<<"0", "-", "2">>), 0, 2>>, <<(<<"1", "-", "2">>), 1, 2>>,
              <<(<<"2", "-", "2">>), 2, 2>>, <<(<<"3", "-", "2">>), 3, 2>>,
              <<(<<"3", "-", "0">>), 3, 0>>}
C4_WellFormed == {t[1] : t \in C4_Counts}
C4_Count(r) ==
  \/ opts.count_option = All
  \/ opts.count_option \notin C4_WellFormed
  \/ \E t \in C4_Counts :
       opts.count_option = t[1] /\ r.balls = t[2] /\ r.strikes = t[3]
C4_Outs(r) == opts.outs_option = OutsAll \/ r.outs_when_up = opts.outs_option.val
C4_Keeps(r) == C4_Hand(r) /\ C4_Count(r) /\ C4_Outs(r) /\ C3_InState(r)
C4_Orders == {s \in [1..4 -> 1..4] : \A i, j \in 1..4 : i # j => s[i] # s[j]}

\* C4: apply_filters returns exactly the rows that satisfy the four predicates
\* together, and the four filters applied in any order give that same table.
C4_ConjunctionAnyOrder ==
  pc = "returned" =>
    /\ situ_df.rows = SelectSeq(fetched.rows, C4_Keeps)
    /\ \A order \in C4_Orders : FilterSteps(order, fetched, opts) = situ_df

\* all four filters set; one row passes them all, the other fails all four
C4_Witness ==
  /\ pc = "returned"
  /\ opts = [handedness |-> "Left", count_option |-> <<"0", "-", "2">>,
             outs_option |-> Num(0), base_state_option |-> "First & Third"]
  /\ "stand" \in fetched.columns
  /\ fetched.rows = <<FilterRow(<<1, 0, 0>>), FilterRow(<<1, 0, 1>>)>>
  /\ situ_df.rows = <<FilterRow(<<1, 0, 1>>)>>

(* ------------------------------ C5 ------------------------------------ *)

\* C5: with handedness, count, outs and base state all "All", apply_filters
\* returns the rows of its input, in their order.
C5_AllIsIdentity ==
  (/\ pc = "returned"
   /\ opts.handedness = "All" /\ opts.count_option = All
   /\ opts.outs_option = OutsAll /\ opts.base_state_option = "All")
    => situ_df = fetched

\* two different rows, all four options "All": both come back, in order
C5_Witness ==
  /\ pc = "returned"
  /\ opts = NoOpts
  /\ fetched.rows = <<FilterRow(<<1, 0, 1>>), FilterRow(<<1, 0, 0>>)>>
  /\ situ_df.rows = fetched.rows

(* ------------------------------ C6 ------------------------------------ *)

C6_Malformed == opts.count_option # All /\ opts.count_option \notin C4_WellFormed

\* C6: a count option that is not "All" and not two integers around one "-"
\* narrows nothing: apply_filters returns what it returns for count "All" with the
\* other three options unchanged.
C6_MalformedCountSkipped ==
  (pc = "returned" /\ C6_Malformed) =>
    situ_df = apply_filters(fetched, [opts EXCEPT !.count_option = All]).situ_df

\* "0-x" with handedness Right: only the handedness filter narrows, and the row
\* it keeps has one ball, not zero
C6_Witness ==
  /\ pc = "returned"
  /\ opts = [NoOpts EXCEPT !.count_option = <<"0", "-", "x">>, !.handedness = "Right"]
  /\ "stand" \in fetched.columns
  /\ fetched.rows = <<FilterRow(<<1, 0, 0>>), FilterRow(<<1, 0, 1>>)>>
  /\ situ_df.rows = <<FilterRow(<<1, 0, 0>>)>>

(* ------------------------------ C7 ------------------------------------ *)

CountRows(rows, P(_)) == Cardinality({i \in 1..Len(rows) : P(rows[i])})

C7_StrikeSet == {"called_strike", "swinging_strike", "swinging_strike_blocked",
                 "foul", "foul_tip", "foul_bunt"}
C7_WhiffSet == {"swinging_strike", "swinging_strike_blocked"}
C7_SwingSet == {"swinging_strike", "swinging_strike_blocked", "foul", "foul_tip",
                "hit_into_play"}
C7_IsStrike(r) == r.description # NullStr /\ r.description \in C7_StrikeSet
C7_IsWhiff(r) == r.description # NullStr /\ r.description \in C7_WhiffSet
C7_IsSwing(r) == r.description # NullStr /\ r.description \in C7_SwingSet
C7_HasLaunchSpeed(r) == r.launch_speed # NoneV

C8_HasEvent(r) == r.events # NullStr
C8_IsStrikeout(r) == r.events = "strikeout"
C8_IsWalk(r) == r.events = "walk"

\* C8: compute_pa_level_rates counts the rows with a non-null terminal event;
\* with none it returns (null, null, 0); otherwise K% and BB% are the shares of
\* "strikeout" and "walk" among those rows, times 100, rounded to one decimal.
C8_PARates ==
  pc = "returned" =>
    LET n == CountRows(data.rows, C8_HasEvent)
    IN /\ rates.pa_count = n
       /\ n = 0 => rates = [k_pct |-> NoneV, bb_pct |-> NoneV, pa_count |-> 0]
       /\ n > 0 => /\ rates.k_pct = Num(Round1(100 * CountRows(data.rows, C8_IsStrikeout), n))
                   /\ rates.bb_pct = Num(Round1(100 * CountRows(data.rows, C8_IsWalk), n))

\* a table with a null-event row, a strikeout and another event: K% is 50.0
C8_Witness ==
  /\ pc = "returned"
  /\ Len(data.rows) = 3
  /\ data.rows[1].events = NullStr
  /\ data.rows[2].events = "strikeout"
  /\ data.rows[3].events = "single"
  /\ rates = [k_pct |-> Num(500), bb_pct |-> Num(0), pa_count |-> 2]

(* ------------------------------ C10 ----------------------------------- *)

\* C10: apply_filters leaves its input as it was fetched, so that the table a run
\* ends with (situation B in comparison mode) is the rows of the fetched table that
\* its own options keep, whatever call came before.
C10_InputNotMutated ==
  /\ data = fetched
  /\ pc = "done" => situ_df.rows = SelectSeq(fetched.rows, C4_Keeps)

\* comparison mode: situation A kept no row, situation B with every option "All"
\* shows the fetched row
C10_Witness ==
  /\ pc = "done" /\ compare_mode
  /\ Len(fetched.rows) = 1
  /\ written = <<0, 1>>
  /\ opts = NoOpts
  /\ situ_df = fetched

====
